---- MODULE Spec2Model ----
(***************************************************************************)
(* Model of the ESG dashboard script src/arnaldo.py.                       *)
(*                                                                         *)
(* The script is run top to bottom by Streamlit once per user interaction. *)
(* One run is the chain of steps                                           *)
(*   load -> reset_init -> sidebar -> filter -> kpi -> tabs -> idle        *)
(* and a user interaction at "idle" (a widget change, or a click on the    *)
(* reset button) writes the widget's entry of st.session_state and starts  *)
(* the next run.  An uncaught exception ends the run at "crashed".         *)
(*                                                                         *)
(* Numbers are pandas float cells: a rational n/d, NaN, or +-inf.  A cell  *)
(* of the source sheet may also hold text.                                 *)
(***************************************************************************)
EXTENDS Integers, Sequences, FiniteSets, TLC

VARIABLES
    file,           \* dataset_esg_sem_2015.xlsx: whether it is readable, and its rows
    cache,          \* st.cache_data entry of load_data: <<>> or <<result>>
    df,             \* module-level df
    session_state,  \* st.session_state: a function from its keys to their values
    clicked,        \* the reset button was clicked: st.button returns True in this run
    pc,             \* position of the script run
    messages,       \* st.error / st.warning elements shown by this run
    df_filtered,    \* module-level df_filtered
    metrics,        \* the four st.metric elements of this run
    top_esg, top_emitters, top_revenue,   \* plot_top_companies' selections
    df_trend,       \* plot_trend_analysis' aggregate
    event           \* the interaction that started this run

vars == <<file, cache, df, session_state, clicked, pc, messages, df_filtered,
          metrics, top_esg, top_emitters, top_revenue, df_trend, event>>

-----------------------------------------------------------------------------
(* Bounds *)

\* longest source sheet of the session specification
MaxRows == 2

\* longest source sheet of the charts specification
MaxView == 6

-----------------------------------------------------------------------------
(* Float cells *)

Num(k) == [t |-> "num", n |-> k, d |-> 1]
Frac(a, b) == [t |-> "num", n |-> a, d |-> b]
NaN == [t |-> "nan", n |-> 0, d |-> 1]
Inf == [t |-> "inf", n |-> 1, d |-> 1]
NegInf == [t |-> "inf", n |-> -1, d |-> 1]
Text == [t |-> "text", n |-> 0, d |-> 1]

isna(c) == c.t = "nan"

\* IEEE comparison x <= y: False as soon as one side is NaN
Leq(x, y) ==
    IF isna(x) \/ isna(y) THEN FALSE
    ELSE IF x.t = "inf" THEN (x.n < 0 \/ (y.t = "inf" /\ y.n > 0))
    ELSE IF y.t = "inf" THEN y.n > 0
    ELSE x.n * y.d <= y.n * x.d

Geq(x, y) == Leq(y, x)

Gcd(a, b) ==
    LET RECURSIVE G(_, _)
        G(x, y) == IF y = 0 THEN x ELSE G(y, x % y)
    IN G(IF a < 0 THEN -a ELSE a, IF b < 0 THEN -b ELSE b)

\* a finite cell in lowest terms, so that equal numbers are equal records
Norm(c) ==
    IF c.t # "num" THEN c
    ELSE LET g == Gcd(c.n, c.d) IN
         IF g = 0 THEN Frac(0, 1) ELSE Frac(c.n \div g, c.d \div g)

\* x + y
Add(x, y) ==
    IF isna(x) \/ isna(y) THEN NaN
    ELSE IF x.t = "inf" /\ y.t = "inf" THEN (IF x.n = y.n THEN x ELSE NaN)
    ELSE IF x.t = "inf" THEN x
    ELSE IF y.t = "inf" THEN y
    ELSE Norm(Frac(x.n * y.d + y.n * x.d, x.d * y.d))

Neg(x) == IF x.t = "nan" THEN x ELSE [x EXCEPT !.n = -x.n]

Sub(x, y) == Add(x, Neg(y))

\* x / y: a finite x over zero is +-inf, 0/0 is NaN
Div(x, y) ==
    IF isna(x) \/ isna(y) THEN NaN
    ELSE IF x.t = "inf" THEN (IF y.t = "inf" THEN NaN
                              ELSE IF y.n < 0 THEN Neg(x) ELSE x)
    ELSE IF y.t = "inf" THEN Num(0)
    ELSE IF y.n = 0 THEN (IF x.n = 0 THEN NaN ELSE IF x.n > 0 THEN Inf ELSE NegInf)
    ELSE IF y.n > 0 THEN Norm(Frac(x.n * y.d, x.d * y.n))
    ELSE Norm(Frac(-(x.n * y.d), x.d * (-y.n)))

\* bool(x) of a float: only zero is falsy (NaN and inf are truthy)
Truthy(x) == ~(x.t = "num" /\ x.n = 0)

-----------------------------------------------------------------------------
(* The source sheet *)

\* region names in Python's string order, as sorted() orders them
RegionRank == [g \in {"EU", "NA"} |-> IF g = "EU" THEN 1 ELSE 2]

Row(nome, regiao, ano, receita, margem, emissao, esg) ==
    [Nome_Compania |-> nome, Regiao |-> regiao, Ano |-> ano, Receita |-> receita,
     MargemLucro |-> margem, Emissao_Carbono |-> emissao, ESG_Geral |-> esg]

\* the rows a source sheet is made of: plain rows, a zero revenue, a text
\* margin, a text emission, a text revenue, an empty ESG cell, an empty year
SourceRows ==
    { Row("Acme", "NA", Num(2020), Num(2), Num(1), Num(4), Num(1)),
      Row("Beta", "EU", Num(2020), Num(1), Num(2), Num(4), Num(2)),
      Row("Cora", "NA", Num(2021), Num(0), Num(1), Num(2), Num(2)),
      Row("Dana", "EU", Num(2021), Num(2), Text,   Num(2), Num(1)),
      Row("Eden", "NA", Num(2020), Num(1), Num(2), Text,   Num(2)),
      Row("Fern", "EU", Num(2020), Text,   Num(1), Num(1), Num(1)),
      Row("Gaia", "NA", Num(2021), Num(2), Num(1), Num(1), NaN),
      Row("Hugo", "EU", NaN,       Num(2), Num(1), Num(1), Num(1)) }

SeqsUpTo(S, k) == UNION { [1..m -> S] : m \in 0..k }

-----------------------------------------------------------------------------
(* pandas *)

\* pd.DataFrame(): no columns, no rows
EmptyFrame == [columns |-> FALSE, rows |-> <<>>]

Frame(rows) == [columns |-> TRUE, rows |-> rows]

\* pd.to_numeric(errors='coerce')
to_numeric(c) == IF c.t = "num" THEN c ELSE NaN

\* Series.astype(int) raises on a cell that is not a number
astype_int_raises(rows) == \E i \in 1..Len(rows) : rows[i].Ano.t # "num"

\* df.dropna(subset=['ESG_Geral', 'Receita'])
dropna(rows) == SelectSeq(rows, LAMBDA r : ~isna(r.ESG_Geral) /\ ~isna(r.Receita))

\* the column of a sequence of rows
Column(rows, col) == [i \in 1..Len(rows) |-> rows[i][col]]

NotNa(cells) == SelectSeq(cells, LAMBDA c : ~isna(c))

\* Series.sum(): NaN cells are skipped, the empty sum is 0
RECURSIVE SumCells(_)
SumCells(cells) ==
    IF cells = <<>> THEN Num(0)
    ELSE IF isna(Head(cells)) THEN SumCells(Tail(cells))
    ELSE Add(Head(cells), SumCells(Tail(cells)))

\* Series.mean(): NaN cells are skipped, the mean of nothing is NaN
MeanCells(cells) ==
    IF NotNa(cells) = <<>> THEN NaN
    ELSE Div(SumCells(cells), Num(Len(NotNa(cells))))

\* Series.min() and Series.max(): NaN cells are skipped, NaN when nothing is left
MinCells(cells) ==
    LET v == NotNa(cells) IN
    IF v = <<>> THEN NaN
    ELSE CHOOSE x \in {v[i] : i \in 1..Len(v)} : \A j \in 1..Len(v) : Leq(x, v[j])

MaxCells(cells) ==
    LET v == NotNa(cells) IN
    IF v = <<>> THEN NaN
    ELSE CHOOSE x \in {v[i] : i \in 1..Len(v)} : \A j \in 1..Len(v) : Leq(v[j], x)

\* df['Ano'].min(), df['Ano'].max() of the integer year column
MinAno(rows) == CHOOSE y \in {rows[i].Ano : i \in 1..Len(rows)} :
                    \A j \in 1..Len(rows) : y <= rows[j].Ano

MaxAno(rows) == CHOOSE y \in {rows[i].Ano : i \in 1..Len(rows)} :
                    \A j \in 1..Len(rows) : y >= rows[j].Ano

\* sorted(df['Regiao'].unique())
RECURSIVE SortedRegions(_)
SortedRegions(S) ==
    IF S = {} THEN <<>>
    ELSE LET g == CHOOSE x \in S : \A y \in S : RegionRank[x] <= RegionRank[y]
         IN <<g>> \o SortedRegions(S \ {g})

Regioes(rows) == {rows[i].Regiao : i \in 1..Len(rows)}

-----------------------------------------------------------------------------
(* load_data *)

\* the body of load_data's try block, for a readable sheet whose years cast
CleanRow(r) ==
    [r EXCEPT !.Ano = r.Ano.n,
              !.Receita = to_numeric(r.Receita),
              !.MargemLucro = to_numeric(r.MargemLucro),
              !.Emissao_Carbono = to_numeric(r.Emissao_Carbono)]

load_raises(f) == ~f.exists \/ astype_int_raises(f.rows)

\* load_data(): the cleaned frame and the st.error elements it emits
load_data(f) ==
    IF load_raises(f)
    THEN [frame |-> EmptyFrame, messages |-> <<"Erro ao carregar dados">>]
    ELSE [frame |-> Frame(dropna([i \in 1..Len(f.rows) |-> CleanRow(f.rows[i])])),
          messages |-> <<>>]

-----------------------------------------------------------------------------
(* st.session_state and the sidebar widgets *)

WidgetKeys == {"year_range", "regions", "revenue_range", "margin_range"}

\* st.session_state.get(key, default)
Get(state, key, default) == IF key \in DOMAIN state THEN state[key] ELSE default

\* st.session_state[key] = value
Put(state, key, value) ==
    [k \in DOMAIN state \cup {key} |-> IF k = key THEN value ELSE state[k]]

\* the dictionary stored under 'reset'
ResetSnapshot(rows) ==
    [year_range |-> <<MinAno(rows), MaxAno(rows)>>,
     regions |-> SortedRegions(Regioes(rows)),
     revenue_range |-> <<MinCells(Column(rows, "Receita")), MaxCells(Column(rows, "Receita"))>>,
     margin_range |-> <<MinCells(Column(rows, "MargemLucro")),
                        MaxCells(Column(rows, "MargemLucro"))>>]

\* a year slider created without min_value and max_value
YearSliderAccepts_NoBounds(rows, v) == v[1] <= v[2]

\* what an integer st.slider(min_value, max_value, step=1) lets the user pick
YearSliderAccepts(rows, v) ==
    /\ MinAno(rows) <= v[1]
    /\ v[1] <= v[2]
    /\ v[2] <= MaxAno(rows)

\* what a float st.slider(min_value, max_value) lets the user pick
FloatSliderAccepts(rows, col, v) ==
    /\ Leq(MinCells(Column(rows, col)), v[1])
    /\ Leq(v[1], v[2])
    /\ Leq(v[2], MaxCells(Column(rows, col)))

\* what st.multiselect(options) lets the user pick: options, each once, in
\* the order they were picked
MultiselectAccepts(rows, v) ==
    /\ \A i \in 1..Len(v) : v[i] \in Regioes(rows)
    /\ \A i, j \in 1..Len(v) : v[i] = v[j] => i = j

\* handle positions the user may try on a slider: the whole numbers from one
\* below the column's minimum to one above its maximum
YearTries(rows) == (MinAno(rows) - 1)..(MaxAno(rows) + 1)

FloatTries(rows, col) ==
    { Num(k) : k \in (MinCells(Column(rows, col)).n - 1)..(MaxCells(Column(rows, col)).n + 1) }

RegionTries == { v \in SeqsUpTo(DOMAIN RegionRank, Cardinality(DOMAIN RegionRank)) :
                    \A i, j \in 1..Len(v) : v[i] = v[j] => i = j }

-----------------------------------------------------------------------------
(* The filter *)

InList(x, list) == \E i \in 1..Len(list) : list[i] = x

\* the mask with the margin's upper bound left out
Mask_NoMarginCeiling(r, state) ==
    /\ r.Ano >= state["year_range"][1]
    /\ r.Ano <= state["year_range"][2]
    /\ InList(r.Regiao, state["regions"])
    /\ Geq(r.Receita, state["revenue_range"][1])
    /\ Leq(r.Receita, state["revenue_range"][2])
    /\ Geq(r.MargemLucro, state["margin_range"][1])

\* the boolean mask of lines 105-113
Mask(r, state) ==
    /\ r.Ano >= state["year_range"][1]
    /\ r.Ano <= state["year_range"][2]
    /\ InList(r.Regiao, state["regions"])
    /\ Geq(r.Receita, state["revenue_range"][1])
    /\ Leq(r.Receita, state["revenue_range"][2])
    /\ Geq(r.MargemLucro, state["margin_range"][1])
    /\ Leq(r.MargemLucro, state["margin_range"][2])

\* df_filtered['Emissao_por_Receita'] = Emissao_Carbono / Receita
WithIntensity(r) ==
    [Nome_Compania |-> r.Nome_Compania, Regiao |-> r.Regiao, Ano |-> r.Ano,
     Receita |-> r.Receita, MargemLucro |-> r.MargemLucro,
     Emissao_Carbono |-> r.Emissao_Carbono, ESG_Geral |-> r.ESG_Geral,
     Emissao_por_Receita |-> Div(r.Emissao_Carbono, r.Receita)]

FilterRows(rows, state) ==
    LET kept == SelectSeq(rows, LAMBDA r : Mask(r, state))
    IN [i \in 1..Len(kept) |-> WithIntensity(kept[i])]

-----------------------------------------------------------------------------
(* The session *)

\* the sliders get finite bounds: the frame has a row and a margin that is a number
SlidersDefined(f) ==
    load_raises(f) \/
    LET rows == load_data(f).frame.rows IN
    rows # <<>> /\ NotNa(Column(rows, "MargemLucro")) # <<>>

Files ==
    { [exists |-> FALSE, rows |-> <<>>] } \cup
    { f \in { [exists |-> TRUE, rows |-> s] : s \in SeqsUpTo(SourceRows, MaxRows) } :
        SlidersDefined(f) }

Init ==
    /\ file \in Files
    /\ cache = <<>>
    /\ df = EmptyFrame
    /\ session_state = <<>>
    /\ clicked = FALSE
    /\ pc = "load"
    /\ messages = <<>>
    /\ df_filtered = EmptyFrame
    /\ metrics = <<>>
    /\ top_esg = <<>>
    /\ top_emitters = <<>>
    /\ top_revenue = <<>>
    /\ df_trend = <<>>
    /\ event = "none"

outputs == <<df_filtered, metrics, top_esg, top_emitters, top_revenue, df_trend>>

\* df = load_data(), through st.cache_data: a hit replays the stored result
\* and its st.error element
LoadData ==
    /\ pc = "load"
    /\ LET result == IF cache = <<>> THEN load_data(file) ELSE cache[1] IN
       /\ cache' = <<result>>
       /\ df' = result.frame
       /\ messages' = result.messages
    /\ pc' = "reset_init"
    /\ UNCHANGED <<file, session_state, clicked, outputs, event>>

\* the ttl=3600 of st.cache_data runs out between two runs
CacheExpires ==
    /\ pc = "idle"
    /\ cache # <<>>
    /\ cache' = <<>>
    /\ UNCHANGED <<file, df, session_state, clicked, pc, messages, outputs, event>>

\* lines 47-53: df['Ano'] raises KeyError on a frame without columns
ResetInit ==
    /\ pc = "reset_init"
    /\ IF "reset" \in DOMAIN session_state
       THEN pc' = "sidebar" /\ UNCHANGED session_state
       ELSE IF ~df.columns
            THEN pc' = "crashed" /\ UNCHANGED session_state
            ELSE /\ session_state' = Put(session_state, "reset", ResetSnapshot(df.rows))
                 /\ pc' = "sidebar"
    /\ UNCHANGED <<file, cache, df, clicked, messages, outputs, event>>

\* the copy loop passing over the region list
RECURSIVE CopySnapshot_SkipsRegions(_, _, _)
CopySnapshot_SkipsRegions(state, snapshot, keys) ==
    IF keys = {} THEN state
    ELSE LET key == CHOOSE k \in keys : TRUE
             next == IF key = "regions" THEN state ELSE Put(state, key, snapshot[key])
         IN CopySnapshot_SkipsRegions(next, snapshot, keys \ {key})

\* lines 61-64: the button returned True; copy the snapshot and st.rerun()
RECURSIVE CopySnapshot(_, _, _)
CopySnapshot(state, snapshot, keys) ==
    IF keys = {} THEN state
    ELSE LET key == CHOOSE k \in keys : TRUE
         IN CopySnapshot(Put(state, key, snapshot[key]), snapshot, keys \ {key})

ResetButton ==
    /\ pc = "sidebar"
    /\ clicked
    /\ session_state' = CopySnapshot(session_state, session_state["reset"],
                                     DOMAIN session_state["reset"])
    /\ clicked' = FALSE
    /\ pc' = "load"
    /\ UNCHANGED <<file, cache, df, messages, outputs, event>>

\* lines 67-101: each widget returns its session_state entry, which it
\* creates from value= / default= when the key is not there yet
WidgetsState(state) ==
    [k \in DOMAIN state \cup WidgetKeys |->
        IF k \in WidgetKeys THEN Get(state, k, state["reset"][k]) ELSE state[k]]

SidebarWidgets ==
    /\ pc = "sidebar"
    /\ ~clicked
    /\ session_state' = WidgetsState(session_state)
    /\ pc' = "filter"
    /\ UNCHANGED <<file, cache, df, clicked, messages, outputs, event>>

\* lines 104-119
ApplyFilters ==
    /\ pc = "filter"
    /\ IF df.columns
       THEN /\ df_filtered' = Frame(FilterRows(df.rows, session_state))
            /\ UNCHANGED messages
       ELSE /\ df_filtered' = EmptyFrame
            /\ messages' = Append(messages, "Erro ao filtrar dados")
    /\ pc' = "kpi"
    /\ UNCHANGED <<file, cache, df, session_state, clicked, metrics,
                   top_esg, top_emitters, top_revenue, df_trend, event>>

-----------------------------------------------------------------------------
(* The KPI row *)

\* a delta= argument of None
None == [text |-> "None", sign |-> 0, scaled |-> 0, digits |-> 0]

Pow10(k) == IF k = 0 THEN 1 ELSE IF k = 1 THEN 10 ELSE 100

\* f"{x:.1f}", f"{x:,.2f}", f"{x:,.0f}": the decimal with that many digits
\* nearest to x (ties to even), "nan" for NaN, "inf" for an infinity
Fixed(x, digits) ==
    IF x.t = "nan" THEN [text |-> "nan", sign |-> 0, scaled |-> 0, digits |-> digits]
    ELSE IF x.t = "inf" THEN [text |-> "inf", sign |-> x.n, scaled |-> 0, digits |-> digits]
    ELSE LET a == IF x.n < 0 THEN -x.n ELSE x.n
             q == (a * Pow10(digits)) \div x.d
             r == (a * Pow10(digits)) % x.d
             up == 2 * r > x.d \/ (2 * r = x.d /\ q % 2 = 1)
         IN [text |-> "fixed", sign |-> IF x.n < 0 THEN -1 ELSE 1,
             scaled |-> IF up THEN q + 1 ELSE q, digits |-> digits]

\* f"{k:,}" of an integer
Grouped(k) == [text |-> "int", sign |-> IF k < 0 THEN -1 ELSE 1,
               scaled |-> IF k < 0 THEN -k ELSE k, digits |-> 0]

Metric(label, value, delta) == [label |-> label, value |-> value, delta |-> delta]

\* col1, lines 131-137
CountMetric(view, base) ==
    LET delta == IF Len(view) # Len(base) THEN <<Len(view) - Len(base)>> ELSE <<>>
    IN Metric("Empresas Analisadas", Grouped(Len(view)),
              IF delta # <<>> /\ delta[1] # 0 THEN Grouped(delta[1]) ELSE None)

\* the delta shown whenever it is not None, a zero included
FloatDelta_ShowsZero(delta, digits) ==
    IF delta # <<>> THEN Fixed(delta[1], digits) ELSE None

\* the delta= of col2..col4: shown when `delta` is truthy, None otherwise
FloatDelta(delta, digits) ==
    IF delta # <<>> /\ Truthy(delta[1]) THEN Fixed(delta[1], digits) ELSE None

\* col2, lines 139-146
EsgMetric(view, base) ==
    LET avg_esg == MeanCells(Column(view, "ESG_Geral"))
        delta_esg == IF view # <<>>
                     THEN <<Sub(avg_esg, MeanCells(Column(base, "ESG_Geral")))>>
                     ELSE <<>>
    IN Metric("Media ESG Geral", Fixed(avg_esg, 1), FloatDelta(delta_esg, 1))

\* col3, lines 148-155
RevenueMetric(view, base) ==
    LET avg_revenue == MeanCells(Column(view, "Receita"))
        delta_revenue == IF view # <<>>
                         THEN <<Sub(avg_revenue, MeanCells(Column(base, "Receita")))>>
                         ELSE <<>>
    IN Metric("Receita Media", Fixed(avg_revenue, 2), FloatDelta(delta_revenue, 2))

\* col4, lines 157-164
EmissionsMetric(view, base) ==
    LET total_emissions == SumCells(Column(view, "Emissao_Carbono"))
        delta_emissions == IF view # <<>>
                           THEN <<Sub(total_emissions, SumCells(Column(base, "Emissao_Carbono")))>>
                           ELSE <<>>
    IN Metric("Emissoes Totais", Fixed(total_emissions, 0), FloatDelta(delta_emissions, 0))

\* lines 130-164; df_filtered['ESG_Geral'] raises KeyError on a frame without columns
KPIs ==
    /\ pc = "kpi"
    /\ IF df_filtered.columns
       THEN /\ metrics' = << CountMetric(df_filtered.rows, df.rows),
                             EsgMetric(df_filtered.rows, df.rows),
                             RevenueMetric(df_filtered.rows, df.rows),
                             EmissionsMetric(df_filtered.rows, df.rows) >>
            /\ pc' = "tabs"
       ELSE /\ metrics' = << CountMetric(df_filtered.rows, df.rows) >>
            /\ pc' = "crashed"
    /\ UNCHANGED <<file, cache, df, session_state, clicked, messages, df_filtered,
                   top_esg, top_emitters, top_revenue, df_trend, event>>

-----------------------------------------------------------------------------
(* plot_top_companies: DataFrame.nlargest *)

\* number of rows of the leaderboards
TopN == 5

Take(seq, k) == SubSeq(seq, 1, IF k < Len(seq) THEN k ELSE Len(seq))

\* stable sort of row positions by a column, largest first
RECURSIVE InsertDesc(_, _, _)
InsertDesc(sorted, i, cells) ==
    IF sorted = <<>> THEN <<i>>
    ELSE IF Geq(cells[Head(sorted)], cells[i])
         THEN <<Head(sorted)>> \o InsertDesc(Tail(sorted), i, cells)
         ELSE <<i>> \o sorted

RECURSIVE SortDesc(_, _)
SortDesc(idx, cells) ==
    IF idx = <<>> THEN <<>>
    ELSE InsertDesc(SortDesc(SubSeq(idx, 1, Len(idx) - 1), cells), idx[Len(idx)], cells)

\* positions of the rows whose cell is a number / is NaN, in table order
ValidIdx(cells) == SelectSeq([i \in 1..Len(cells) |-> i], LAMBDA i : ~isna(cells[i]))

NanIdx(cells) == SelectSeq([i \in 1..Len(cells) |-> i], LAMBDA i : isna(cells[i]))

\* the k-th largest of the cells at positions idx
KthLargest(idx, cells, k) ==
    LET v == CHOOSE i \in {idx[j] : j \in 1..Len(idx)} :
                /\ Cardinality({j \in 1..Len(idx) :
                       Geq(cells[idx[j]], cells[i]) /\ ~Leq(cells[idx[j]], cells[i])}) < k
                /\ Cardinality({j \in 1..Len(idx) : Geq(cells[idx[j]], cells[i])}) >= k
    IN cells[v]

\* nlargest leaving the NaN rows out of its result
nlargest_idx_DropsNaN(cells, n) ==
    IF n <= 0 THEN <<>> ELSE Take(SortDesc(ValidIdx(cells), cells), n)

\* Series.nlargest(n, keep='first') as row positions: the NaN rows are set
\* aside, the n largest numbers are taken first-come on ties, and the NaN
\* rows fill the remaining places
nlargest_idx(cells, n) ==
    LET dropped == ValidIdx(cells)
        nan_index == NanIdx(cells)
    IN IF n <= 0 THEN <<>>
       ELSE IF n >= Len(cells) THEN Take(SortDesc(dropped, cells) \o nan_index, n)
       ELSE IF dropped = <<>> THEN Take(nan_index, n)
       ELSE LET k == IF n < Len(dropped) THEN n ELSE Len(dropped)
                kth_val == KthLargest(dropped, cells, k)
                ns == SelectSeq(dropped, LAMBDA i : Geq(cells[i], kth_val))
                inds == Take(SortDesc(ns, cells), k)
            IN Take(inds \o nan_index, n)

\* df_filtered.nlargest(n, col)
nlargest(rows, n, col) ==
    LET inds == nlargest_idx(Column(rows, col), n)
    IN [j \in 1..Len(inds) |-> rows[inds[j]]]

-----------------------------------------------------------------------------
(* plot_trend_analysis: groupby(['Ano', 'Regiao']).agg(...).reset_index() *)

GroupKeys(rows) == { <<rows[i].Ano, rows[i].Regiao>> : i \in 1..Len(rows) }

\* the group keys compared by region first
KeyLeq_RegionFirst(a, b) ==
    RegionRank[a[2]] < RegionRank[b[2]] \/ (a[2] = b[2] /\ a[1] <= b[1])

KeyLeq(a, b) == a[1] < b[1] \/ (a[1] = b[1] /\ RegionRank[a[2]] <= RegionRank[b[2]])

\* groupby sorts the group keys
RECURSIVE SortedKeys(_)
SortedKeys(S) ==
    IF S = {} THEN <<>>
    ELSE LET k == CHOOSE x \in S : \A y \in S : KeyLeq(x, y)
         IN <<k>> \o SortedKeys(S \ {k})

GroupRows(rows, key) == SelectSeq(rows, LAMBDA r : r.Ano = key[1] /\ r.Regiao = key[2])

AggregateRow(rows, key) ==
    LET g == GroupRows(rows, key) IN
    [Ano |-> key[1], Regiao |-> key[2],
     ESG_Geral |-> MeanCells(Column(g, "ESG_Geral")),
     Receita |-> MeanCells(Column(g, "Receita")),
     Emissao_Carbono |-> SumCells(Column(g, "Emissao_Carbono")),
     Emissao_por_Receita |-> MeanCells(Column(g, "Emissao_por_Receita"))]

trend(rows) ==
    LET keys == SortedKeys(GroupKeys(rows))
    IN [i \in 1..Len(keys) |-> AggregateRow(rows, keys[i])]

\* lines 256-289: the tabs; the charts are drawn only for a view with rows
Tabs ==
    /\ pc = "tabs"
    /\ IF df_filtered.rows # <<>>
       THEN /\ top_esg' = nlargest(df_filtered.rows, TopN, "ESG_Geral")
            /\ top_emitters' = nlargest(df_filtered.rows, TopN, "Emissao_Carbono")
            /\ top_revenue' = nlargest(df_filtered.rows, TopN, "Receita")
            /\ df_trend' = trend(df_filtered.rows)
            /\ UNCHANGED messages
       ELSE /\ messages' = messages \o <<"Nenhum dado encontrado", "Nenhum dado encontrado">>
            /\ UNCHANGED <<top_esg, top_emitters, top_revenue, df_trend>>
    /\ pc' = "idle"
    /\ UNCHANGED <<file, cache, df, session_state, clicked, df_filtered, metrics, event>>

-----------------------------------------------------------------------------
(* User interactions between two runs *)

\* a widget's new value is stored under its key and the script reruns
WidgetChange(key, value) ==
    /\ pc = "idle"
    /\ value # session_state[key]
    /\ session_state' = Put(session_state, key, value)
    /\ event' = "widget"
    /\ pc' = "load"
    /\ UNCHANGED <<file, cache, df, clicked, messages, outputs>>

ChangeYearRange ==
    /\ pc = "idle"
    /\ \E lo, hi \in YearTries(df.rows) :
          /\ YearSliderAccepts(df.rows, <<lo, hi>>)
          /\ WidgetChange("year_range", <<lo, hi>>)

ChangeRegions ==
    /\ pc = "idle"
    /\ \E v \in RegionTries :
          /\ MultiselectAccepts(df.rows, v)
          /\ WidgetChange("regions", v)

ChangeRevenueRange ==
    /\ pc = "idle"
    /\ \E lo, hi \in FloatTries(df.rows, "Receita") :
          /\ FloatSliderAccepts(df.rows, "Receita", <<lo, hi>>)
          /\ WidgetChange("revenue_range", <<lo, hi>>)

ChangeMarginRange ==
    /\ pc = "idle"
    /\ \E lo, hi \in FloatTries(df.rows, "MargemLucro") :
          /\ FloatSliderAccepts(df.rows, "MargemLucro", <<lo, hi>>)
          /\ WidgetChange("margin_range", <<lo, hi>>)

ClickReset ==
    /\ pc = "idle"
    /\ clicked' = TRUE
    /\ event' = "reset"
    /\ pc' = "load"
    /\ UNCHANGED <<file, cache, df, session_state, messages, outputs>>

Next ==
    \/ LoadData
    \/ CacheExpires
    \/ ResetInit
    \/ ResetButton
    \/ SidebarWidgets
    \/ ApplyFilters
    \/ KPIs
    \/ Tabs
    \/ ChangeYearRange
    \/ ChangeRegions
    \/ ChangeRevenueRange
    \/ ChangeMarginRange
    \/ ClickReset

Spec == Init /\ [][Next]_vars

-----------------------------------------------------------------------------
(* The charts of longer sheets: the script stands before its tabs, first run, *)
(* filters untouched                                                          *)

\* the i-th row of a chart sheet, of one of four kinds
ChartRow(i, kind) ==
    CASE kind = 1 -> Row(ToString(i), "NA", Num(2021), Num(2), Num(1), Text,   Num(1))
      [] kind = 2 -> Row(ToString(i), "EU", Num(2020), Num(1), Num(2), Num(1), Num(2))
      [] kind = 3 -> Row(ToString(i), "NA", Num(2020), Num(0), Num(1), Num(2), Num(2))
      [] kind = 4 -> Row(ToString(i), "EU", Num(2021), Num(2), Num(2), Num(2), Num(1))

ChartFiles ==
    { [exists |-> TRUE, rows |-> [i \in DOMAIN kinds |-> ChartRow(i, kinds[i])]] :
        kinds \in UNION { [1..m -> 1..4] : m \in 1..MaxView } }

InitCharts ==
    /\ file \in ChartFiles
    /\ cache = <<load_data(file)>>
    /\ df = load_data(file).frame
    /\ session_state = WidgetsState(Put(<<>>, "reset", ResetSnapshot(df.rows)))
    /\ clicked = FALSE
    /\ pc = "tabs"
    /\ messages = <<>>
    /\ df_filtered = Frame(FilterRows(df.rows, session_state))
    /\ metrics = << CountMetric(df_filtered.rows, df.rows),
                    EsgMetric(df_filtered.rows, df.rows),
                    RevenueMetric(df_filtered.rows, df.rows),
                    EmissionsMetric(df_filtered.rows, df.rows) >>
    /\ top_esg = <<>>
    /\ top_emitters = <<>>
    /\ top_revenue = <<>>
    /\ df_trend = <<>>
    /\ event = "none"

NextCharts == Tabs

SpecCharts == InitCharts /\ [][NextCharts]_vars

-----------------------------------------------------------------------------
(* Properties of the session *)

\* df_filtered is the view of the current filter state
ViewCurrent == pc \in {"kpi", "tabs", "idle"}

\* the KPI row is the one of the current view
MetricsCurrent == pc \in {"tabs", "idle"}

\* a record of the view without its derived column
Strip(r) ==
    [Nome_Compania |-> r.Nome_Compania, Regiao |-> r.Regiao, Ano |-> r.Ano,
     Receita |-> r.Receita, MargemLucro |-> r.MargemLucro,
     Emissao_Carbono |-> r.Emissao_Carbono, ESG_Geral |-> r.ESG_Geral]

StrippedView == [i \in 1..Len(df_filtered.rows) |-> Strip(df_filtered.rows[i])]

\* both cells are numbers and x is at most y
NumLeq(x, y) == x.t = "num" /\ y.t = "num" /\ x.n * y.d <= y.n * x.d

\* a cell is a number lying in the closed range
Within(c, range) == NumLeq(range[1], c) /\ NumLeq(c, range[2])

\* the record satisfies the four predicates of the filter state
Passes(r) ==
    /\ session_state["year_range"][1] <= r.Ano
    /\ r.Ano <= session_state["year_range"][2]
    /\ r.Regiao \in {session_state["regions"][i] : i \in 1..Len(session_state["regions"])}
    /\ Within(r.Receita, session_state["revenue_range"])
    /\ Within(r.MargemLucro, session_state["margin_range"])

\* the positions of the base table's passing records, ascending
PassingPositions ==
    SelectSeq([i \in 1..Len(df.rows) |-> i], LAMBDA i : Passes(df.rows[i]))

\* C1: the filtered view is exactly the base-table records that satisfy all
\* four predicates at once, in the base table's order, hence a subsequence of
\* the base table and never longer than it.
C1_FilteredViewIsConjunction ==
    ViewCurrent =>
        /\ df_filtered.columns
        /\ Len(df_filtered.rows) = Len(PassingPositions)
        /\ \A j \in 1..Len(PassingPositions) : StrippedView[j] = df.rows[PassingPositions[j]]
        /\ Len(df_filtered.rows) <= Len(df.rows)

\* a run whose filters kept a record and removed the one before it
C1_Witness ==
    /\ pc = "idle"
    /\ event = "widget"
    /\ Len(df.rows) = 2
    /\ Len(df_filtered.rows) = 1
    /\ StrippedView[1] = df.rows[2]

LiveState == [k \in WidgetKeys |-> session_state[k]]

Baseline == [k \in WidgetKeys |-> ResetSnapshot(df.rows)[k]]

\* C2: once the reset button has been handled, the live filter state equals
\* the baseline computed from the base table at session start, whatever was
\* updated before; and the stored baseline is that snapshot in every state.
C2_ResetRestoresBaseline ==
    /\ "reset" \in DOMAIN session_state =>
          /\ DOMAIN session_state["reset"] = WidgetKeys
          /\ \A k \in WidgetKeys : session_state["reset"][k] = Baseline[k]
    /\ (event = "reset" /\ ~clicked) => LiveState = Baseline

\* a reset has been handled and the script has run to its end again
C2_Witness ==
    /\ event = "reset"
    /\ pc = "idle"
    /\ cache = <<>>
    /\ df_filtered.rows # <<>>

\* C8: a delta is shown on a KPI only when the view differs from the base
\* table; with the view equal to the base table all four deltas are None.
C8_DeltaOnlyWhenViewDiffers ==
    MetricsCurrent =>
        ((\E k \in 1..Len(metrics) : metrics[k].delta # None) => StrippedView # df.rows)

\* the KPI row of a view that is the whole, non-empty base table
C8_Witness ==
    /\ pc = "idle"
    /\ Len(metrics) = 4
    /\ df.rows # <<>>
    /\ StrippedView = df.rows

C3_LoadFailureDegrades ==
    (pc # "load" /\ load_raises(file)) =>
        /\ df = EmptyFrame
        /\ \E i \in 1..Len(messages) : messages[i] = "Erro ao carregar dados"
        /\ pc # "crashed"

\* C4: with an empty view the mean-ESG and mean-revenue KPIs show neither a
\* number nor NaN, and carry no delta.
C4_EmptyViewMeansUndefined ==
    (MetricsCurrent /\ df_filtered.rows = <<>>) =>
        \A k \in {2, 3} :
            /\ metrics[k].value.text \notin {"nan", "fixed", "inf"}
            /\ metrics[k].delta = None

\* C10: with the live filter state equal to the baseline, the view holds
\* every record of the base table.
C10_BaselineKeepsEveryRecord ==
    (ViewCurrent /\ LiveState = Baseline) => StrippedView = df.rows

\* the records of the view in the group of an aggregate row
GroupOf(a) ==
    SelectSeq(df_filtered.rows, LAMBDA r : r.Ano = a.Ano /\ r.Regiao = a.Regiao)

\* the sum of the numerators of the cells that are numbers (whole numbers here)
RECURSIVE WholeSum(_)
WholeSum(cells) ==
    IF cells = <<>> THEN 0
    ELSE (IF Head(cells).t = "num" THEN Head(cells).n ELSE 0) + WholeSum(Tail(cells))

\* m is the exact mean of the whole-number cells
IsMeanOf(m, cells) ==
    /\ cells # <<>>
    /\ \A i \in 1..Len(cells) : cells[i].t = "num" /\ cells[i].d = 1
    /\ m.t = "num"
    /\ m.n * Len(cells) = WholeSum(cells) * m.d

\* C7: a record with revenue 0 has an undefined emission intensity, and a
\* group's mean intensity is the mean of the intensities of its records with
\* a revenue other than 0 and known emissions (undefined when there is none).
C7_ZeroRevenueIntensityUndefined ==
    /\ ViewCurrent =>
          \A i \in 1..Len(df_filtered.rows) :
              df_filtered.rows[i].Receita = Num(0) => isna(df_filtered.rows[i].Emissao_por_Receita)
    /\ (pc = "idle" /\ df_filtered.rows # <<>>) =>
          \A i \in 1..Len(df_trend) :
              LET defined == SelectSeq(GroupOf(df_trend[i]),
                                 LAMBDA r : r.Receita # Num(0) /\ ~isna(r.Emissao_Carbono))
              IN df_trend[i].Emissao_por_Receita =
                    MeanCells(Column(defined, "Emissao_por_Receita"))

-----------------------------------------------------------------------------
(* Properties of the charts *)

\* the charts are those of the current view
ChartsDrawn == pc = "idle" /\ df_filtered.rows # <<>>

\* position in the view of the record with that name (names are unique in
\* the sheets of SpecCharts)
PositionOf(r) == CHOOSE i \in 1..Len(df_filtered.rows) :
                    df_filtered.rows[i].Nome_Compania = r.Nome_Compania

\* the record at position a ranks before the one at position b: larger
\* metric first, earlier record first among equals, missing metrics last
RanksBefore(a, b, col) ==
    LET x == df_filtered.rows[a][col]
        y == df_filtered.rows[b][col]
    IN IF x.t # "num" THEN y.t # "num" /\ a < b
       ELSE \/ y.t # "num"
            \/ x.n * y.d > y.n * x.d
            \/ (x.n * y.d = y.n * x.d /\ a < b)

IsTopN(top, col) ==
    LET view == df_filtered.rows
        taken == {PositionOf(top[j]) : j \in 1..Len(top)}
    IN /\ Len(top) = (IF Len(view) < TopN THEN Len(view) ELSE TopN)
       /\ \A j \in 1..Len(top) : top[j] = view[PositionOf(top[j])]
       /\ \A j, k \in 1..Len(top) :
             j < k => RanksBefore(PositionOf(top[j]), PositionOf(top[k]), col)
       /\ \A i \in (1..Len(view)) \ taken : \A a \in taken : RanksBefore(a, i, col)

\* C5: each leaderboard is the first min(5, |view|) records of the view in
\* descending order of its metric, ties in table order, records with a
\* missing metric included after the others.
C5_TopFive ==
    ChartsDrawn =>
        /\ IsTopN(top_esg, "ESG_Geral")
        /\ IsTopN(top_emitters, "Emissao_Carbono")
        /\ IsTopN(top_revenue, "Receita")

\* leaderboards of a view with more than five records, one of them without
\* emissions on the emitters' board, and a tie on the ESG board
C5_Witness ==
    /\ ChartsDrawn
    /\ Len(df_filtered.rows) > TopN
    /\ Len(top_emitters) = TopN
    /\ isna(top_emitters[TopN].Emissao_Carbono)
    /\ top_esg[1].ESG_Geral = top_esg[2].ESG_Geral

\* C6: the trend has one row per (year, region) pair of the view and none
\* else, ordered by year and then region name, each with its group's mean
\* ESG, mean revenue and summed emissions.
C6_TrendGroups ==
    ChartsDrawn =>
        /\ \A i \in 1..Len(df_filtered.rows) : \E j \in 1..Len(df_trend) :
              /\ df_trend[j].Ano = df_filtered.rows[i].Ano
              /\ df_trend[j].Regiao = df_filtered.rows[i].Regiao
        /\ \A j \in 1..Len(df_trend) : GroupOf(df_trend[j]) # <<>>
        /\ \A j, k \in 1..Len(df_trend) :
              j < k => \/ df_trend[j].Ano < df_trend[k].Ano
                       \/ /\ df_trend[j].Ano = df_trend[k].Ano
                          /\ RegionRank[df_trend[j].Regiao] < RegionRank[df_trend[k].Regiao]
        /\ \A j \in 1..Len(df_trend) :
              LET g == GroupOf(df_trend[j]) IN
              /\ IsMeanOf(df_trend[j].ESG_Geral, Column(g, "ESG_Geral"))
              /\ IsMeanOf(df_trend[j].Receita, Column(g, "Receita"))
              /\ df_trend[j].Emissao_Carbono = Num(WholeSum(Column(g, "Emissao_Carbono")))

\* a trend of four groups from a sheet that lists a later year first and
\* holds two records of one group
C6_Witness ==
    /\ ChartsDrawn
    /\ Len(df_trend) = 4
    /\ Len(df_filtered.rows) > 4
    /\ df_filtered.rows[1].Ano > df_filtered.rows[2].Ano

====
